---- MODULE Spec2Model ----
(***************************************************************************)
(* Payment reconciliation core of OnyxInventory (pos_app): the M-Pesa      *)
(* STK-push initiation view, the provider callback view, the status view   *)
(* and the MPesaPayment ledger table they share.                           *)
(*                                                                         *)
(* JSON values are tagged records: None (null or an absent key, which is   *)
(* what dict.get returns), JInt (integers), JNum (numbers that are used as *)
(* amounts, kept in tenths of a currency unit so that int() and the        *)
(* DecimalField's rounding are visible) and JStr (strings).  A phone       *)
(* number is a sequence of one-character strings.                          *)
(***************************************************************************)
EXTENDS Integers, Sequences, FiniteSets, TLC

VARIABLES
    payments,   \* the MPesaPayment table: a sequence of rows, row i has id i
    now,        \* the wall clock read by auto_now / auto_now_add
    nCallbacks, \* number of callback requests received so far (bounded by
                \* MaxCallbacks, or by MaxDeliveries when they run concurrently)
    last,       \* the last request that was answered: its input and response
    pc,         \* per worker: "idle"; "save" (a callback before payment.save());
                \* "create", "link" (an initiation before create, before the
                \* sale link)
    held,       \* per worker: the request and the in-memory payment
    polled,     \* the ids for which a status poll has returned a terminal status
    inventory   \* Product.stock per product, the StockMovement table, the
                \* items of the session's open cart, the Sale table

vars == <<payments, now, nCallbacks, last, pc, held, polled, inventory>>

(***************************************************************************)
(* Bounds of the model.                                                    *)
(***************************************************************************)
MaxClock == 2
MaxCallbacks == 3
MaxDeliveries == 2

Workers == {1, 2}

(***************************************************************************)
(* Python / JSON values.                                                   *)
(***************************************************************************)
None == [kind |-> "none"]
JInt(n) == [kind |-> "int", n |-> n]
JNum(t) == [kind |-> "num", tenths |-> t]
JStr(s) == [kind |-> "str", s |-> s]

\* str(value)
PyStr(v) ==
    CASE v.kind = "none" -> "None"
      [] v.kind = "int" -> ToString(v.n)
      [] v.kind = "str" -> v.s
      [] v.kind = "num" ->
            IF v.tenths % 10 = 0
            THEN ToString(v.tenths \div 10)
            ELSE ToString(v.tenths \div 10) \o "." \o ToString(v.tenths % 10)

\* bool(value): what `not value` negates
Truthy(v) ==
    CASE v.kind = "none" -> FALSE
      [] v.kind = "int" -> v.n # 0
      [] v.kind = "num" -> v.tenths # 0
      [] v.kind = "str" -> v.s # ""

\* value == 0
EqZero(v) ==
    CASE v.kind = "int" -> v.n = 0
      [] v.kind = "num" -> v.tenths = 0
      [] OTHER -> FALSE

\* The strings float() accepts, with their value in tenths.
FloatLiterals == {<<"500", 5000>>, <<"600", 6000>>}

\* float(value) raises ValueError / TypeError
FloatRaises(v) ==
    CASE v.kind = "none" -> TRUE
      [] v.kind = "str" -> \A l \in FloatLiterals : l[1] # v.s
      [] OTHER -> FALSE

\* float(value), in tenths
PyFloat(v) ==
    CASE v.kind = "int" -> v.n * 10
      [] v.kind = "num" -> v.tenths
      [] v.kind = "str" -> (CHOOSE l \in FloatLiterals : l[1] = v.s)[2]

\* int(x) of a float given in tenths: truncation toward zero
PyInt(tenths) == IF tenths >= 0 THEN tenths \div 10 ELSE -((-tenths) \div 10)

\* What the column amount = DecimalField(max_digits=10, decimal_places=0)
\* stores for a float given in tenths: the value quantized to whole units,
\* ties going to the even neighbour.
DecimalPlaces0(tenths) ==
    LET q == tenths \div 10
        r == tenths % 10
    IN  IF r < 5 THEN q
        ELSE IF r > 5 THEN q + 1
        ELSE IF q % 2 = 0 THEN q ELSE q + 1

(***************************************************************************)
(* datetime.strptime(str(value), "%Y%m%d%H%M%S").  A compact timestamp is  *)
(* given by its six fields; anything else does not parse.                  *)
(***************************************************************************)
JDate(y, m, d, hh, mm, ss) ==
    [kind |-> "date", y |-> y, m |-> m, d |-> d, hh |-> hh, mm |-> mm, ss |-> ss]

DaysIn(y, m) ==
    IF m \in {4, 6, 9, 11} THEN 30
    ELSE IF m = 2
         THEN (IF (y % 4 = 0 /\ y % 100 # 0) \/ y % 400 = 0 THEN 29 ELSE 28)
         ELSE 31

StrptimeRaises(v) ==
    IF v.kind = "date"
    THEN ~ ( /\ v.y \in 1..9999
             /\ v.m \in 1..12
             /\ v.d \in 1..DaysIn(v.y, v.m)
             /\ v.hh \in 0..23
             /\ v.mm \in 0..59
             /\ v.ss \in 0..61 )
    ELSE TRUE

Strptime(v) == <<v.y, v.m, v.d, v.hh, v.mm, v.ss>>

(***************************************************************************)
(* HTTP responses.                                                         *)
(***************************************************************************)
JsonResponse(body, status) == [status |-> status, body |-> body]

\* JsonResponse({"ResultCode": c, "ResultDesc": d}) : status defaults to 200
Ack(c, d) == JsonResponse([ResultCode |-> c, ResultDesc |-> d], 200)

\* Variants of the acknowledgments below, as a slip in the view would write them
MissingCheckoutRequestID_Zero == Ack(0, "Missing CheckoutRequestID")
PaymentNotFound_Zero == Ack(0, "Payment not found")
ProcessingError_Http500 ==
    JsonResponse([ResultCode |-> 1, ResultDesc |-> "Processing error"], 500)

MissingCheckoutRequestID == Ack(1, "Missing CheckoutRequestID")
PaymentNotFound == Ack(1, "Payment not found")
AlwaysSuccess == Ack(0, "Success")
InvalidJSON == Ack(1, "Invalid JSON")
ProcessingError == Ack(1, "Processing error")
InvalidRequestMethod == Ack(1, "Invalid request method")

(***************************************************************************)
(* The MPesaPayment table.  A row is a record of the model's columns; the  *)
(* id of row i of the sequence is i.  amount holds whole units, as the     *)
(* column does.  result_description and transaction_date hold JSON-like    *)
(* values because the code assigns None to them.                           *)
(***************************************************************************)
PAYMENT_STATUS == {"pending", "successful", "failed", "cancelled"}

NewPayment(phone, amountTenths, checkoutId, merchantId, clock) ==
    [ sale |-> None,
      phone_number |-> phone,
      amount |-> DecimalPlaces0(amountTenths),
      checkout_request_id |-> checkoutId,
      merchant_request_id |-> merchantId,
      mpesa_receipt_number |-> "",
      transaction_date |-> None,
      status |-> "pending",
      result_code |-> "",
      result_description |-> JStr(""),
      created_at |-> clock,
      updated_at |-> clock ]

\* MPesaPayment.objects.get(checkout_request_id=cid): the ids of the matches
Matching(table, cid) ==
    {i \in DOMAIN table : table[i].checkout_request_id = cid}

\* The instance get() returns for row i: the columns, with its id; the
\* amount is held in tenths from here on because the callback assigns a float.
Instance(table, i) ==
    [table[i] EXCEPT !.amount = table[i].amount * 10] @@ ("id" :> i)

\* is_successful
is_successful(row) == row.status = "successful"

\* Columns declared without null=True reject None (IntegrityError).
SaveRaises(obj) == obj.result_description = None

\* payment.save() of an instance that has an id: every column of the row
\* is written from the instance, and auto_now stamps updated_at.
Save(table, obj, clock) ==
    [table EXCEPT ![obj.id] =
        [ sale |-> obj.sale,
          phone_number |-> obj.phone_number,
          amount |-> DecimalPlaces0(obj.amount),
          checkout_request_id |-> obj.checkout_request_id,
          merchant_request_id |-> obj.merchant_request_id,
          mpesa_receipt_number |-> obj.mpesa_receipt_number,
          transaction_date |-> obj.transaction_date,
          status |-> obj.status,
          result_code |-> obj.result_code,
          result_description |-> obj.result_description,
          created_at |-> obj.created_at,
          updated_at |-> clock ]]

(***************************************************************************)
(* mpesa_callback.  A request has a method, a body that is or is not JSON, *)
(* and, when it is, a document of one of the shapes below.                 *)
(***************************************************************************)
Item(name, value) == [Name |-> name, Value |-> value]

CallbackRequest(method, parses, doc, cid, rc, desc, items) ==
    [ method |-> method, parses |-> parses, doc |-> doc,
      CheckoutRequestID |-> cid, ResultCode |-> rc, ResultDesc |-> desc,
      Items |-> items ]

\* callback_data.get('Body', {}).get('stkCallback', {}) raises when Body or
\* stkCallback is present and null
StkCallbackRaises(req) == req.doc \in {"null_body", "null_stk"}

\* the stkCallback dict is empty unless the document carries one
HasStk(req) == req.doc = "stk"

\* ApplyItem with the Amount item read but not assigned to the instance
ApplyItem_KeepsAmount(obj, item) ==
    LET name == item.Name
        value == item.Value
    IN  IF name = "MpesaReceiptNumber"
        THEN [raised |-> FALSE, obj |-> [obj EXCEPT !.mpesa_receipt_number = PyStr(value)]]
        ELSE IF name = "Amount"
        THEN [raised |-> FALSE, obj |-> obj]
        ELSE IF name = "TransactionDate" /\ ~StrptimeRaises(value)
        THEN [raised |-> FALSE,
              obj |-> [obj EXCEPT !.transaction_date =
                          [kind |-> "datetime", t |-> Strptime(value)]]]
        ELSE [raised |-> FALSE, obj |-> obj]

\* ApplyItem without the try/except around strptime: a bad date raises
ApplyItem_DateRaises(obj, item) ==
    LET name == item.Name
        value == item.Value
    IN  IF name = "MpesaReceiptNumber"
        THEN [raised |-> FALSE, obj |-> [obj EXCEPT !.mpesa_receipt_number = PyStr(value)]]
        ELSE IF name = "Amount"
        THEN IF FloatRaises(value)
             THEN [raised |-> TRUE, obj |-> obj]
             ELSE [raised |-> FALSE, obj |-> [obj EXCEPT !.amount = PyFloat(value)]]
        ELSE IF name = "TransactionDate"
        THEN IF StrptimeRaises(value)
             THEN [raised |-> TRUE, obj |-> obj]
             ELSE [raised |-> FALSE,
                   obj |-> [obj EXCEPT !.transaction_date =
                               [kind |-> "datetime", t |-> Strptime(value)]]]
        ELSE [raised |-> FALSE, obj |-> obj]

\* One iteration of the loop over CallbackMetadata.Item (views.py 288-302):
\* the instance after the item, or raised when float(value) raises.
ApplyItem(obj, item) ==
    LET name == item.Name
        value == item.Value
    IN  IF name = "MpesaReceiptNumber"
        THEN [raised |-> FALSE, obj |-> [obj EXCEPT !.mpesa_receipt_number = PyStr(value)]]
        ELSE IF name = "Amount"
        THEN IF FloatRaises(value)
             THEN [raised |-> TRUE, obj |-> obj]
             ELSE [raised |-> FALSE, obj |-> [obj EXCEPT !.amount = PyFloat(value)]]
        ELSE IF name = "TransactionDate"
        THEN IF StrptimeRaises(value)
             THEN [raised |-> FALSE, obj |-> obj]
             ELSE [raised |-> FALSE,
                   obj |-> [obj EXCEPT !.transaction_date =
                               [kind |-> "datetime", t |-> Strptime(value)]]]
        ELSE [raised |-> FALSE, obj |-> obj]

\* for item in callback_metadata: ...
RECURSIVE ApplyItems(_, _)
ApplyItems(obj, items) ==
    IF items = <<>> THEN [raised |-> FALSE, obj |-> obj]
    ELSE LET step == ApplyItem(obj, Head(items))
         IN  IF step.raised THEN step ELSE ApplyItems(step.obj, Tail(items))

\* The assignments of the success branch (views.py 281-283)
MarkSuccessful(payment, result_code, result_desc) ==
    [payment EXCEPT !.status = "successful",
                    !.result_code = PyStr(result_code),
                    !.result_description = result_desc]

\* MarkFailed with the user-cancelled code mapped to the status 'cancelled'
MarkFailed_Cancelled(payment, result_code, result_desc) ==
    [payment EXCEPT !.status = IF PyStr(result_code) = "1032" THEN "cancelled" ELSE "failed",
                    !.result_code = PyStr(result_code),
                    !.result_description = result_desc]

\* The assignments of the failure branch (views.py 315-317)
MarkFailed(payment, result_code, result_desc) ==
    [payment EXCEPT !.status = "failed",
                    !.result_code = PyStr(result_code),
                    !.result_description = result_desc]

\* The handler from its first line to just before payment.save(): either it
\* answers (kind "respond"), or it holds a modified instance to save.
CallbackRun(req, table) ==
    IF req.method # "POST" THEN [kind |-> "respond", resp |-> InvalidRequestMethod, pre |-> "none"]
    ELSE IF ~req.parses THEN [kind |-> "respond", resp |-> InvalidJSON, pre |-> "none"]
    ELSE IF StkCallbackRaises(req) THEN [kind |-> "respond", resp |-> ProcessingError, pre |-> "none"]
    ELSE
    LET checkout_request_id == IF HasStk(req) THEN req.CheckoutRequestID ELSE None
        result_code == IF HasStk(req) THEN req.ResultCode ELSE None
        result_desc == IF HasStk(req) THEN req.ResultDesc ELSE None
        callback_metadata == IF HasStk(req) THEN req.Items ELSE <<>>
    IN
    IF ~Truthy(checkout_request_id)
    THEN [kind |-> "respond", resp |-> MissingCheckoutRequestID, pre |-> "none"]
    ELSE
    LET found == Matching(table, PyStr(checkout_request_id))
    IN
    IF found = {} THEN [kind |-> "respond", resp |-> PaymentNotFound, pre |-> "none"]
    ELSE IF Cardinality(found) > 1
    THEN [kind |-> "respond", resp |-> ProcessingError, pre |-> "many"]
    ELSE
    LET payment == Instance(table, CHOOSE i \in found : TRUE)
    IN
    IF EqZero(result_code)
    THEN LET looped == ApplyItems(MarkSuccessful(payment, result_code, result_desc),
                                  callback_metadata)
         IN  IF looped.raised
             THEN [kind |-> "respond", resp |-> ProcessingError, pre |-> payment.status]
             ELSE [kind |-> "save", obj |-> looped.obj, pre |-> payment.status]
    ELSE [kind |-> "save", obj |-> MarkFailed(payment, result_code, result_desc),
          pre |-> payment.status]

\* payment.save() and what follows it: the table and the answer
CallbackSave(table, obj, clock) ==
    IF SaveRaises(obj)
    THEN [table |-> table, resp |-> ProcessingError]
    ELSE [table |-> Save(table, obj, clock), resp |-> AlwaysSuccess]

(***************************************************************************)
(* MPesaService (services/mpesa_service.py).                               *)
(***************************************************************************)
DigitChars == {"0", "1", "2", "3", "4", "5", "6", "7", "8", "9"}

\* ''.join(filter(str.isdigit, str(phone)))
RECURSIVE OnlyDigits(_)
OnlyDigits(chars) ==
    IF chars = <<>> THEN <<>>
    ELSE IF Head(chars) \in DigitChars
         THEN <<Head(chars)>> \o OnlyDigits(Tail(chars))
         ELSE OnlyDigits(Tail(chars))

\* phone.startswith(prefix)
StartsWith(chars, prefix) ==
    /\ Len(chars) >= Len(prefix)
    /\ SubSeq(chars, 1, Len(prefix)) = prefix

\* format_phone_number raises ValueError
FormatPhoneRaises(raw) ==
    LET phone == OnlyDigits(raw)
    IN  /\ ~StartsWith(phone, <<"0">>)
        /\ ~StartsWith(phone, <<"2", "5", "4">>)
        /\ ~(Len(phone) = 9 /\ StartsWith(phone, <<"7">>))

\* format_phone_number
format_phone_number(raw) ==
    LET phone == OnlyDigits(raw)
    IN  IF StartsWith(phone, <<"0">>) THEN <<"2", "5", "4">> \o Tail(phone)
        ELSE IF StartsWith(phone, <<"2", "5", "4">>) THEN phone
        ELSE <<"2", "5", "4">> \o phone

\* str.strip(): leading and trailing blanks removed
RECURSIVE LStrip(_)
LStrip(chars) ==
    IF chars # <<>> /\ Head(chars) = " " THEN LStrip(Tail(chars)) ELSE chars

RECURSIVE RStrip(_)
RStrip(chars) ==
    IF chars # <<>> /\ chars[Len(chars)] = " "
    THEN RStrip(SubSeq(chars, 1, Len(chars) - 1))
    ELSE chars

Strip(chars) == RStrip(LStrip(chars))

\* What the provider side does with one initiation: whether the token
\* request succeeds, and how the push request ends (its JSON body when it
\* is answered).
GatewayOutcomes(ids) ==
    { [token |-> "error", push |-> "unsent", ResponseCode |-> "", CheckoutRequestID |-> "",
       MerchantRequestID |-> "", ResponseDescription |-> ""],
      [token |-> "ok", push |-> "error", ResponseCode |-> "", CheckoutRequestID |-> "",
       MerchantRequestID |-> "", ResponseDescription |-> ""],
      [token |-> "ok", push |-> "answered", ResponseCode |-> "1", CheckoutRequestID |-> "",
       MerchantRequestID |-> "", ResponseDescription |-> "Unable to lock subscriber"] }
    \cup
    { [token |-> "ok", push |-> "answered", ResponseCode |-> "0", CheckoutRequestID |-> c,
       MerchantRequestID |-> "mr_1",
       ResponseDescription |-> "Success. Request accepted for processing"] :
        c \in ids }

\* chars[:n]
Take(chars, n) == SubSeq(chars, 1, IF Len(chars) < n THEN Len(chars) ELSE n)

\* The limits of the slices reference[:12] and description[:13]
ReferenceLimit == 12
DescriptionLimit == 13

\* The validation at the head of the try block: the message of the ValueError
\* raised, "" when none is (the variant leaves the phone unchecked)
ValidationError_AmountOnly(phone_number, amountTenths) ==
    IF PyInt(amountTenths) < 1 THEN "Amount must be at least KES 1" ELSE ""

ValidationError(phone_number, amountTenths) ==
    IF PyInt(amountTenths) < 1 THEN "Amount must be at least KES 1"
    ELSE IF FormatPhoneRaises(phone_number) THEN "Invalid phone number format"
    ELSE ""

\* data.get('ResponseCode') == '0' (the variant takes every answer as accepted)
ProviderAccepted_Always(data) == TRUE
ProviderAccepted(data) == data.ResponseCode = "0"

\* MPesaService(): a new instance holds no token
NewService == [access_token |-> None, token_expiry |-> None]

\* timedelta(seconds=3500): the clock of the model counts in steps of this length
TokenLifetime == 1

\* get_access_token: the token request; the instance afterwards holds the
\* token with its expiry, unless the request failed (a plain Exception)
get_access_token(service, clock, gw) ==
    IF gw.token = "error"
    THEN [raised |-> TRUE, service |-> service, calls |-> <<[url |-> "oauth"]>>]
    ELSE [raised |-> FALSE,
          service |-> [access_token |-> JStr("token"),
                       token_expiry |-> JInt(clock + TokenLifetime)],
          calls |-> <<[url |-> "oauth"]>>]

\* not self.access_token or not self.token_expiry or timezone.now() >= self.token_expiry
TokenStale(service, clock) ==
    \/ ~Truthy(service.access_token)
    \/ service.token_expiry = None
    \/ clock >= service.token_expiry.n

\* _ensure_token
ensure_token(service, clock, gw) ==
    IF TokenStale(service, clock)
    THEN get_access_token(service, clock, gw)
    ELSE [raised |-> FALSE, service |-> service, calls |-> <<>>]

\* The try block of initiate_stk_push: what it raises, or the dict it returns,
\* with the network calls made on the way.  get_access_token turns a failed
\* token request into a plain Exception.
StkPushTry(service, clock, phone_number, amountTenths, reference, description, gw) ==
    LET amount == PyInt(amountTenths)
        invalid == ValidationError(phone_number, amountTenths)
        ensured == ensure_token(service, clock, gw)
    IN  IF invalid # ""
        THEN [raised |-> "ValueError", message |-> invalid, calls |-> <<>>]
        ELSE IF ensured.raised
        THEN [raised |-> "Exception", message |-> "Failed to connect to M-Pesa",
              calls |-> ensured.calls]
        ELSE LET push == [url |-> "processrequest",
                          Bearer |-> ensured.service,
                          Amount |-> amount,
                          PartyA |-> format_phone_number(phone_number),
                          PhoneNumber |-> format_phone_number(phone_number),
                          AccountReference |-> Take(reference, ReferenceLimit),
                          TransactionDesc |-> Take(description, DescriptionLimit)]
                 sent == ensured.calls \o <<push>>
             IN  IF gw.push = "error"
                 THEN [raised |-> "RequestException", message |-> "push request failed",
                       calls |-> sent]
                 ELSE IF ProviderAccepted(gw)
                 THEN [raised |-> "none", calls |-> sent,
                       returned |-> [success |-> TRUE,
                                     checkout_request_id |-> gw.CheckoutRequestID,
                                     merchant_request_id |-> gw.MerchantRequestID]]
                 ELSE [raised |-> "none", calls |-> sent,
                       returned |-> [success |-> FALSE, error |-> gw.ResponseDescription]]

\* The except clauses of initiate_stk_push, in order (mpesa_service.py 158-175),
\* without the generic one in the variant
StkPushExcepts_NoGeneric == <<"ValueError", "RequestException">>
StkPushExcepts == <<"ValueError", "RequestException", "Exception">>

\* except <clause> catches an exception of class <raised>
Catches(clause, raised) == clause = raised \/ clause = "Exception"

\* The message each except clause returns
ExceptMessage(clause, message) ==
    IF clause = "ValueError" THEN message
    ELSE IF clause = "RequestException" THEN "Network error: " \o message
    ELSE "Unexpected error: " \o message

\* What leaves the method after its try block: the dict returned, or the dict
\* of the first except clause that catches what was raised (escaped when none
\* does), with the network calls made
StkPushExcept(try) ==
    LET clauses == {k \in DOMAIN StkPushExcepts : Catches(StkPushExcepts[k], try.raised)}
    IN  IF try.raised = "none"
        THEN try.returned @@ [escaped |-> FALSE, calls |-> try.calls]
        ELSE IF clauses = {}
        THEN [escaped |-> TRUE, success |-> FALSE, error |-> try.message,
              calls |-> try.calls]
        ELSE LET first == CHOOSE k \in clauses : \A j \in clauses : k <= j
             IN  [escaped |-> FALSE, success |-> FALSE,
                  error |-> ExceptMessage(StkPushExcepts[first], try.message),
                  calls |-> try.calls]

\* initiate_stk_push
initiate_stk_push(service, clock, phone_number, amountTenths, reference, description, gw) ==
    StkPushExcept(StkPushTry(service, clock, phone_number, amountTenths, reference,
                             description, gw))

(***************************************************************************)
(* initiate_mpesa_payment.  The Cart and Sale tables are fixed: cart 7 has *)
(* sale 3, cart 8 has no sale, no other cart exists.                       *)
(***************************************************************************)
CartIdsInTable == {7, 8}
SaleOfCart(c) == IF c = 7 THEN JInt(3) ELSE None

InitiateRequest(method, parses, phone, amount, cart, reference) ==
    [ method |-> method, parses |-> parses, phone_number |-> phone,
      amount |-> amount, cart_id |-> cart, reference |-> reference ]

\* Decimal digits of a natural number: str(n)
RECURSIVE IntChars(_)
IntChars(n) ==
    LET digit == <<"0", "1", "2", "3", "4", "5", "6", "7", "8", "9">>[(n % 10) + 1]
    IN  IF n < 10 THEN <<digit>> ELSE IntChars(n \div 10) \o <<digit>>

\* str(value) as characters
StrChars(v) == IF v.kind = "int" THEN IntChars(v.n) ELSE v.s

\* chars.zfill(width)
RECURSIVE ZFill(_, _)
ZFill(chars, width) ==
    IF Len(chars) >= width THEN chars ELSE ZFill(<<"0">> \o chars, width)

\* The width of str(cart_id).zfill(6)
CartReferenceWidth == 6

\* 'POS Payment', the default of data.get('reference', ...)
DefaultReference == <<"P", "O", "S", " ", "P", "a", "y", "m", "e", "n", "t">>

\* "Payment for goods/services"
ViewDescription == <<"P", "a", "y", "m", "e", "n", "t", " ", "f", "o", "r", " ", "g", "o", "o", "d", "s", "/", "s", "e", "r", "v", "i", "c", "e", "s">>

\* The reference the view passes on (views.py 150, 178-180)
ViewReference(req) ==
    IF Truthy(req.cart_id)
    THEN <<"P", "O", "S">> \o ZFill(StrChars(req.cart_id), CartReferenceWidth)
    ELSE IF req.reference = None THEN DefaultReference ELSE req.reference.s

Fail(status, message) ==
    JsonResponse([success |-> FALSE, message |-> message], status)

\* Cart.objects.get(id=cart_id) raises something other than Cart.DoesNotExist:
\* the id is not a number
CartLookupRaises(cart_id) == Truthy(cart_id) /\ cart_id.kind = "str"

\* MPesaPayment.objects.create raises IntegrityError: checkout_request_id is unique
\* (the variant is the column without unique=True)
CreateRaises_Never(table, checkoutId) == FALSE
CreateRaises(table, checkoutId) == Matching(table, checkoutId) # {}

\* What the view does with the result of initiate_stk_push (views.py 190,
\* 225-241): go on to create the row, or answer with the failure
InitiateResult(req, phone_number, amount, result) ==
    IF result.escaped
    THEN [kind |-> "respond", resp |-> Fail(500, "Server error"), calls |-> result.calls]
    ELSE IF ~result.success
    THEN [kind |-> "respond", resp |-> Fail(400, result.error), calls |-> result.calls]
    ELSE [kind |-> "create", req |-> req, phone_number |-> phone_number, amount |-> amount,
          result |-> result, calls |-> result.calls]

\* The view up to the answer of the gateway client (views.py 126-188): the
\* response when it ends there, otherwise what it goes on to create
InitiateCall(req, gw, clock) ==
    IF req.method # "POST"
    THEN [kind |-> "respond", resp |-> Fail(405, "Only POST method allowed"), calls |-> <<>>]
    ELSE IF ~req.parses
    THEN [kind |-> "respond", resp |-> Fail(400, "Invalid JSON data"), calls |-> <<>>]
    ELSE
    LET phone_number == Strip(req.phone_number)
    IN
    IF phone_number = <<>>
    THEN [kind |-> "respond", resp |-> Fail(400, "Phone number is required"), calls |-> <<>>]
    ELSE IF ~Truthy(req.amount)
    THEN [kind |-> "respond", resp |-> Fail(400, "Amount is required"), calls |-> <<>>]
    ELSE IF FloatRaises(req.amount) \/ PyFloat(req.amount) <= 0
    THEN [kind |-> "respond", resp |-> Fail(400, "Amount must be a positive number"),
          calls |-> <<>>]
    ELSE InitiateResult(req, phone_number, PyFloat(req.amount),
                        initiate_stk_push(NewService, clock, phone_number, PyFloat(req.amount),
                                          ViewReference(req), ViewDescription, gw))

\* The success response of the view
Initiated(call, id) ==
    JsonResponse([success |-> TRUE,
                  checkout_request_id |-> call.result.checkout_request_id,
                  payment_id |-> id,
                  message |-> "Payment initiated successfully"], 200)

\* MPesaPayment.objects.create (views.py 192-198): the table afterwards and the
\* instance the view holds, or the response when the insert raises; the view
\* answers here when no cart was named
InitiateCreate(call, table, clock) ==
    IF CreateRaises(table, call.result.checkout_request_id)
    THEN [kind |-> "respond", resp |-> Fail(500, "Server error"), table |-> table]
    ELSE LET created == NewPayment(call.phone_number, call.amount,
                                   call.result.checkout_request_id,
                                   call.result.merchant_request_id, clock)
             id == Len(table) + 1
         IN  IF ~Truthy(call.req.cart_id)
             THEN [kind |-> "respond", resp |-> Initiated(call, id),
                   table |-> Append(table, created)]
             ELSE [kind |-> "link", table |-> Append(table, created),
                   obj |-> [created EXCEPT !.amount = call.amount] @@ ("id" :> id)]

\* The sale link (views.py 201-214): the cart and sale lookups and, when a sale
\* is found, payment.save() of the instance the view holds
InitiateLink(call, obj, table, clock) ==
    IF CartLookupRaises(call.req.cart_id)
    THEN [resp |-> Fail(500, "Server error"), table |-> table]
    ELSE IF call.req.cart_id.n \in CartIdsInTable /\ SaleOfCart(call.req.cart_id.n) # None
    THEN [resp |-> Initiated(call, obj.id),
          table |-> Save(table, [obj EXCEPT !.sale = SaleOfCart(call.req.cart_id.n)], clock)]
    ELSE [resp |-> Initiated(call, obj.id), table |-> table]

\* The view from objects.create on, given what it created
InitiateAfterCreate(call, made, clock) ==
    IF made.kind = "respond"
    THEN [resp |-> made.resp, table |-> made.table, calls |-> call.calls]
    ELSE [resp |-> InitiateLink(call, made.obj, made.table, clock).resp,
          table |-> InitiateLink(call, made.obj, made.table, clock).table,
          calls |-> call.calls]

\* The view from the gateway client's answer on
InitiateAfterCall(call, table, clock) ==
    IF call.kind = "respond"
    THEN [resp |-> call.resp, table |-> table, calls |-> call.calls]
    ELSE InitiateAfterCreate(call, InitiateCreate(call, table, clock), clock)

\* The whole view: the response, the table afterwards, the network calls made.
InitiateRun(req, gw, table, clock) ==
    InitiateAfterCall(InitiateCall(req, gw, clock), table, clock)

(***************************************************************************)
(* check_payment_status                                                    *)
(***************************************************************************)
check_payment_status(table, checkoutId) ==
    LET found == Matching(table, checkoutId)
    IN  IF found = {}
        THEN Fail(404, "Payment not found")
        ELSE LET payment == table[CHOOSE i \in found : TRUE]
             IN  JsonResponse([success |-> TRUE,
                               status |-> payment.status,
                               receipt_number |-> payment.mpesa_receipt_number,
                               amount |-> payment.amount,
                               phone_number |-> payment.phone_number,
                               created_at |-> payment.created_at,
                               is_successful |-> is_successful(payment)], 200)

(***************************************************************************)
(* mpesa_payments_list                                                     *)
(***************************************************************************)
\* [:50]
ListLimit == 50

\* The orders order_by('-created_at') may return the rows in: newest first,
\* rows created at the same time in either order
ListOrders(table) ==
    { o \in [DOMAIN table -> DOMAIN table] :
        /\ \A i, j \in DOMAIN table : o[i] = o[j] => i = j
        /\ \A i, j \in DOMAIN table :
              i < j => table[o[i]].created_at >= table[o[j]].created_at }

\* The response for one such order
mpesa_payments_list(table, order) ==
    LET entry(i) == [id |-> i,
                     phone_number |-> table[i].phone_number,
                     amount |-> table[i].amount,
                     status |-> table[i].status,
                     receipt_number |-> table[i].mpesa_receipt_number,
                     checkout_request_id |-> table[i].checkout_request_id,
                     created_at |-> table[i].created_at,
                     is_successful |-> is_successful(table[i])]
        data == [k \in DOMAIN Take(order, ListLimit) |-> entry(order[k])]
    IN  JsonResponse([success |-> TRUE, count |-> Len(data), payments |-> data], 200)

(***************************************************************************)
(* Inputs.                                                                 *)
(***************************************************************************)
CheckoutIds == {"ws_1", "ws_2"}

\* The CheckoutRequestIDs the provider issues in the ledger specification;
\* ws_2 is an id no row ever carries there.
IssuedIds == {"ws_1"}

Phones ==
    { <<"0", "7", "1", "2", "3", "4", "5", "6", "7", "8">>,
      <<"1", "2", "3", "4", "5">> }

\* The initiation requests of the ledger specification: the scenario's
\* request, one the view rejects and one the service rejects.
InitiateRequests ==
    { InitiateRequest("POST", TRUE, p, JInt(500), None, None) : p \in Phones }
    \cup { InitiateRequest("POST", TRUE, <<>>, JInt(500), None, None) }

\* The metadata lists the provider sends
MetadataLists ==
    { <<>>,
      << Item("Amount", JNum(5000)), Item("MpesaReceiptNumber", JStr("ABC123")),
         Item("TransactionDate", JDate(2024, 1, 31, 10, 15, 0)),
         Item("PhoneNumber", JStr("254712345678")) >>,
      << Item("Amount", JNum(6000)), Item("MpesaReceiptNumber", JStr("XYZ789")),
         Item("TransactionDate", JDate(2024, 2, 31, 10, 15, 0)) >>,
      << Item("MpesaReceiptNumber", JStr("ABC123")), Item("Amount", JStr("abc")) >> }

ResultDescs == {JStr("described"), None}

StkCallbacks ==
    { CallbackRequest("POST", TRUE, "stk", cid, JInt(0), d, m) :
        cid \in {JStr(c) : c \in CheckoutIds}, d \in ResultDescs, m \in MetadataLists }
    \cup
    { CallbackRequest("POST", TRUE, "stk", cid, rc, d, <<>>) :
        cid \in {JStr(c) : c \in CheckoutIds}, rc \in {JInt(1032), None},
        d \in ResultDescs }

MalformedCallbacks ==
    { CallbackRequest("GET", TRUE, "stk", JStr("ws_1"), JInt(0), JStr("ok"), <<>>),
      CallbackRequest("POST", FALSE, "none", None, None, None, <<>>),
      CallbackRequest("POST", TRUE, "no_body", None, None, None, <<>>),
      CallbackRequest("POST", TRUE, "null_body", None, None, None, <<>>),
      CallbackRequest("POST", TRUE, "no_stk", None, None, None, <<>>),
      CallbackRequest("POST", TRUE, "null_stk", None, None, None, <<>>),
      CallbackRequest("POST", TRUE, "stk", None, JInt(0), JStr("ok"), <<>>),
      CallbackRequest("POST", TRUE, "stk", JStr(""), JInt(0), JStr("ok"), <<>>) }

CallbackRequests == StkCallbacks \cup MalformedCallbacks

(***************************************************************************)
(* Inventory: Product.stock, StockMovement, the session's cart, Sale.      *)
(***************************************************************************)
Products == {1, 2}

\* Product.price, by product id
ProductPrice(product) == product * 100

InitialStock == 2
MaxStock == 3
MaxMovements == 1
MaxSales == 1
MaxCartQuantity == 2

\* The products as entered in the admin, an empty cart, nothing sold or logged
NewInventory ==
    [stock |-> [p \in Products |-> InitialStock],
     movements |-> <<>>,
     cart |-> [p \in Products |-> 0],
     sales |-> <<>>]

StockMovement(product, movement_type, quantity, previous_quantity, new_quantity, clock) ==
    [product |-> product, movement_type |-> movement_type, quantity |-> quantity,
     previous_quantity |-> previous_quantity, new_quantity |-> new_quantity,
     created_at |-> clock]

Abs(n) == IF n < 0 THEN 0 - n ELSE n

\* Product.add_stock
add_stock(inv, product, quantity, clock) ==
    [inv EXCEPT !.stock[product] = @ + quantity,
                !.movements = Append(@, StockMovement(product, "in", quantity,
                                  inv.stock[product], inv.stock[product] + quantity, clock))]

\* Product.remove_stock: ValueError when more is asked than there is
RemoveStockRaises(inv, product, quantity) == quantity > inv.stock[product]

remove_stock(inv, product, quantity, clock) ==
    IF RemoveStockRaises(inv, product, quantity) THEN inv
    ELSE [inv EXCEPT !.stock[product] = @ - quantity,
                     !.movements = Append(@, StockMovement(product, "out", quantity,
                                       inv.stock[product], inv.stock[product] - quantity, clock))]

\* Product.set_stock
set_stock(inv, product, new_quantity, clock) ==
    [inv EXCEPT !.stock[product] = new_quantity,
                !.movements = Append(@, StockMovement(product, "adjustment",
                                  Abs(new_quantity - inv.stock[product]),
                                  inv.stock[product], new_quantity, clock))]

\* add_to_cart: get_or_create the item with the quantity, else add to it
add_to_cart(inv, product, quantity) ==
    [inv EXCEPT !.cart[product] = IF @ = 0 THEN quantity ELSE @ + quantity]

\* remove_from_cart: delete the item
remove_from_cart(inv, product) == [inv EXCEPT !.cart[product] = 0]

CartItems(inv) == { p \in Products : inv.cart[p] # 0 }

RECURSIVE SumTotals(_, _)
SumTotals(cart, items) ==
    IF items = {} THEN 0
    ELSE LET p == CHOOSE x \in items : TRUE
         IN  cart[p] * ProductPrice(p) + SumTotals(cart, items \ {p})

\* checkout, POST: the sale is created, each item's product has its stock
\* lowered and saved, the cart is completed and the session gets a new one
checkout(inv, payment_method, clock) ==
    [inv EXCEPT !.sales = Append(@, [cart |-> inv.cart,
                                     total_amount |-> SumTotals(inv.cart, CartItems(inv)),
                                     payment_method |-> payment_method,
                                     created_at |-> clock]),
                !.stock = [p \in Products |-> IF p \in CartItems(inv)
                                              THEN inv.stock[p] - inv.cart[p]
                                              ELSE inv.stock[p]],
                !.cart = [p \in Products |-> 0]]

(***************************************************************************)
(* The state machine.                                                      *)
(***************************************************************************)
NoHeld == [kind |-> "none"]

Init ==
    /\ payments = <<>>
    /\ now = 0
    /\ nCallbacks = 0
    /\ last = [op |-> "none"]
    /\ pc = [w \in Workers |-> "idle"]
    /\ held = [w \in Workers |-> NoHeld]
    /\ polled = {}
    /\ inventory = NewInventory

\* Time passes.  The clock counts from the first initiation that created a row.
Tick ==
    /\ payments # <<>>
    /\ now < MaxClock
    /\ now' = now + 1
    /\ UNCHANGED <<payments, nCallbacks, last, pc, held, polled, inventory>>

\* POST api/mpesa/initiate/
Initiate(req, gw) ==
    LET run == InitiateRun(req, gw, payments, now)
    IN  /\ payments' = run.table
        /\ last' = [op |-> "initiate", req |-> req, gw |-> gw,
                    resp |-> run.resp, calls |-> run.calls]
        /\ UNCHANGED <<now, nCallbacks, pc, held, polled, inventory>>

\* api/mpesa/callback/, handled from the first line to the response
Callback(req) ==
    /\ nCallbacks < MaxCallbacks
    /\ \A w \in Workers : pc[w] = "idle"
    /\ nCallbacks' = nCallbacks + 1
    /\ LET run == CallbackRun(req, payments)
           saved == CallbackSave(payments, run.obj, now)
       IN  IF run.kind = "respond"
           THEN /\ payments' = payments
                /\ last' = [op |-> "callback", req |-> req, resp |-> run.resp,
                            pre |-> run.pre, saved |-> FALSE]
           ELSE /\ payments' = saved.table
                /\ last' = [op |-> "callback", req |-> req, resp |-> saved.resp,
                            pre |-> run.pre, saved |-> saved.resp = AlwaysSuccess]
    /\ UNCHANGED <<now, pc, held, polled, inventory>>

\* A status view that would save the row it looked up
QueryStatus_Touch(cid) ==
    /\ last' = [op |-> "status", req |-> cid,
                resp |-> check_payment_status(payments, cid)]
    /\ payments' = [i \in DOMAIN payments |->
                      IF i \in Matching(payments, cid)
                      THEN [payments[i] EXCEPT !.updated_at = now]
                      ELSE payments[i]]
    /\ UNCHANGED <<now, nCallbacks, pc, held, polled, inventory>>

\* GET api/mpesa/status/<checkout_request_id>/
QueryStatus(cid) ==
    /\ last' = [op |-> "status", req |-> cid,
                resp |-> check_payment_status(payments, cid)]
    /\ UNCHANGED <<payments, now, nCallbacks, pc, held, polled, inventory>>

Next ==
    \/ Tick
    \/ \E req \in InitiateRequests, gw \in GatewayOutcomes(IssuedIds) : Initiate(req, gw)
    \/ \E req \in CallbackRequests : Callback(req)
    \/ \E cid \in CheckoutIds : QueryStatus(cid)

Spec == Init /\ [][Next]_vars

(***************************************************************************)
(* Concurrent deliveries: two workers run mpesa_callback, each reading the *)
(* row (get) and later writing it (save), with any interleaving.           *)
(***************************************************************************)
\* The handler up to payment.save(), or to its response when it never saves
CallbackBegin(w, req) ==
    /\ nCallbacks < MaxDeliveries
    /\ pc[w] = "idle"
    /\ nCallbacks' = nCallbacks + 1
    /\ LET run == CallbackRun(req, payments)
       IN  IF run.kind = "respond"
           THEN /\ last' = [op |-> "callback", req |-> req, resp |-> run.resp,
                            pre |-> run.pre, saved |-> FALSE]
                /\ UNCHANGED <<pc, held>>
           ELSE /\ pc' = [pc EXCEPT ![w] = "save"]
                /\ held' = [held EXCEPT ![w] =
                              [kind |-> "payment", req |-> req, obj |-> run.obj,
                               pre |-> run.pre]]
                /\ UNCHANGED last
    /\ UNCHANGED <<payments, now, polled, inventory>>

\* payment.save() and the response
CallbackFinish(w) ==
    /\ pc[w] = "save"
    /\ LET saved == CallbackSave(payments, held[w].obj, now)
       IN  /\ payments' = saved.table
           /\ last' = [op |-> "callback", req |-> held[w].req, resp |-> saved.resp,
                       pre |-> held[w].pre, saved |-> saved.resp = AlwaysSuccess]
    /\ pc' = [pc EXCEPT ![w] = "idle"]
    /\ held' = [held EXCEPT ![w] = NoHeld]
    /\ UNCHANGED <<now, nCallbacks, polled, inventory>>

ConcNext ==
    \/ Tick
    \/ \E req \in InitiateRequests, gw \in GatewayOutcomes(IssuedIds) : Initiate(req, gw)
    \/ \E w \in Workers, req \in CallbackRequests : CallbackBegin(w, req)
    \/ \E w \in Workers : CallbackFinish(w)
    \/ \E cid \in CheckoutIds : QueryStatus(cid)

ConcSpec == Init /\ [][ConcNext]_vars

(***************************************************************************)
(* Initiation over a wider range of requests: the scenario's request with  *)
(* one field changed at a time, against every answer of the provider.      *)
(***************************************************************************)
ScenarioPhone == <<"0", "7", "1", "2", "3", "4", "5", "6", "7", "8">>

InitiatePhones ==
    { ScenarioPhone,
      <<"2", "5", "4", "7", "1", "2", "3", "4", "5", "6", "7", "8">>,
      <<"7", "1", "2", "3", "4", "5", "6", "7", "8">>,
      <<" ", "+", "2", "5", "4", " ", "7", "1", "2", " ", "3", "4", "5", " ", "6", "7", "8", " ">>,
      <<"1", "2", "3", "4", "5">>,
      <<"0", "1", "2", "3">>,
      <<"2", "5", "4", "1", "2">>,
      <<>> }

InitiateAmounts ==
    { JInt(500), JNum(5009), JNum(15), JNum(5), JInt(0), JInt(0 - 5),
      JStr("500"), JStr("abc"), None }

InitiateCarts == { None, JInt(7), JInt(8), JInt(9), JStr("abc") }

LongReference == <<"O", "R", "D", "E", "R", "-", "2", "0", "2", "4", "-", "0", "0", "0", "1", "2", "3", "-", "X", "Y">>

InitiateReferences == { None, JStr(LongReference), JStr(<<"I", "N", "V", "-", "4", "2">>) }

WideInitiateRequests ==
    { InitiateRequest("POST", TRUE, p, JInt(500), None, None) : p \in InitiatePhones }
    \cup { InitiateRequest("POST", TRUE, ScenarioPhone, a, None, None) : a \in InitiateAmounts }
    \cup { InitiateRequest("POST", TRUE, ScenarioPhone, JInt(500), c, None) : c \in InitiateCarts }
    \cup { InitiateRequest("POST", TRUE, ScenarioPhone, JInt(500), None, r) :
             r \in InitiateReferences }
    \cup { InitiateRequest("GET", TRUE, ScenarioPhone, JInt(500), None, None),
           InitiateRequest("POST", FALSE, ScenarioPhone, JInt(500), None, None) }

InitNext ==
    \/ Tick
    \/ \E req \in WideInitiateRequests, gw \in GatewayOutcomes(IssuedIds) : Initiate(req, gw)
    \/ \E cid \in CheckoutIds : QueryStatus(cid)

InitSpec == Init /\ [][InitNext]_vars

(***************************************************************************)
(* Interleaved requests: each worker runs one view at a time, a statement  *)
(* that reaches the database or the provider per step, so that callbacks,  *)
(* polls and other initiations fall between the steps of an initiation.    *)
(***************************************************************************)
\* The scenario's request, with and without a cart that has a sale
RaceInitiateRequests ==
    { InitiateRequest("POST", TRUE, ScenarioPhone, JInt(500), c, None) :
        c \in {None, JInt(7)} }

\* The provider's callbacks for the id it issued: paid, and cancelled by the payer
RaceCallbacks ==
    { CallbackRequest("POST", TRUE, "stk", JStr("ws_1"), JInt(0), JStr("described"),
                      << Item("Amount", JNum(5000)),
                         Item("MpesaReceiptNumber", JStr("ABC123")) >>),
      CallbackRequest("POST", TRUE, "stk", JStr("ws_1"), JInt(1032), JStr("described"),
                      <<>>) }

\* The view up to the answer of the provider
InitiateBegin(w, req, gw) ==
    /\ pc[w] = "idle"
    /\ LET call == InitiateCall(req, gw, now)
       IN  IF call.kind = "respond"
           THEN /\ last' = [op |-> "initiate", req |-> req, gw |-> gw,
                            resp |-> call.resp, calls |-> call.calls]
                /\ UNCHANGED <<pc, held>>
           ELSE /\ pc' = [pc EXCEPT ![w] = "create"]
                /\ held' = [held EXCEPT ![w] = [kind |-> "initiate", gw |-> gw, call |-> call]]
                /\ UNCHANGED last
    /\ UNCHANGED <<payments, now, nCallbacks, polled, inventory>>

\* MPesaPayment.objects.create, and the response when the view ends there
InitiateInsert(w) ==
    /\ pc[w] = "create"
    /\ LET call == held[w].call
           made == InitiateCreate(call, payments, now)
       IN  /\ payments' = made.table
           /\ IF made.kind = "respond"
              THEN /\ last' = [op |-> "initiate", req |-> call.req, gw |-> held[w].gw,
                               resp |-> made.resp, calls |-> call.calls]
                   /\ pc' = [pc EXCEPT ![w] = "idle"]
                   /\ held' = [held EXCEPT ![w] = NoHeld]
              ELSE /\ pc' = [pc EXCEPT ![w] = "link"]
                   /\ held' = [held EXCEPT ![w] = [kind |-> "created", gw |-> held[w].gw,
                                                   call |-> call, obj |-> made.obj]]
                   /\ UNCHANGED last
    /\ UNCHANGED <<now, nCallbacks, polled, inventory>>

\* The sale link and the response
InitiateFinish(w) ==
    /\ pc[w] = "link"
    /\ LET call == held[w].call
           linked == InitiateLink(call, held[w].obj, payments, now)
       IN  /\ payments' = linked.table
           /\ last' = [op |-> "initiate", req |-> call.req, gw |-> held[w].gw,
                       resp |-> linked.resp, calls |-> call.calls]
    /\ pc' = [pc EXCEPT ![w] = "idle"]
    /\ held' = [held EXCEPT ![w] = NoHeld]
    /\ UNCHANGED <<now, nCallbacks, polled, inventory>>

\* A poll of the status view by a client that remembers a terminal answer
Poll(cid) ==
    /\ LET resp == check_payment_status(payments, cid)
       IN  /\ last' = [op |-> "status", req |-> cid, resp |-> resp]
           /\ polled' = IF resp.status = 200 /\ resp.body.status # "pending"
                        THEN polled \cup {cid}
                        ELSE polled
    /\ UNCHANGED <<payments, now, nCallbacks, pc, held, inventory>>

RaceNext ==
    \/ \E w \in Workers, req \in RaceInitiateRequests, gw \in GatewayOutcomes(IssuedIds) :
          InitiateBegin(w, req, gw)
    \/ \E w \in Workers : InitiateInsert(w)
    \/ \E w \in Workers : InitiateFinish(w)
    \/ \E w \in Workers, req \in RaceCallbacks : CallbackBegin(w, req)
    \/ \E w \in Workers : CallbackFinish(w)
    \/ \E cid \in CheckoutIds : Poll(cid)

RaceSpec == Init /\ [][RaceNext]_vars

\* The same handlers, each run to its response once begun, and a client that
\* keeps polling the status of each id
HandlersFinish ==
    \A w \in Workers :
        /\ WF_vars(InitiateInsert(w))
        /\ WF_vars(InitiateFinish(w))
        /\ WF_vars(CallbackFinish(w))

ClientKeepsPolling == \A cid \in CheckoutIds : WF_vars(Poll(cid))

LiveSpec == RaceSpec /\ HandlersFinish /\ ClientKeepsPolling

(***************************************************************************)
(* format_phone_number on its own: an input is drawn, then normalized.     *)
(***************************************************************************)
MaxPhoneBody == 10

PhoneDigits == <<"7", "1", "2", "3", "4", "5", "6", "7", "8", "9">>

PhonePrefixes == { <<>>, <<"0">>, <<"2", "5", "4">>, <<"1">>, <<"+", "2", "5", "4">> }

RawPhones ==
    { prefix \o Take(PhoneDigits, k) : prefix \in PhonePrefixes, k \in 0..MaxPhoneBody }
    \cup { <<"1", "2", "3", "4", "5">>,
           <<"0", "7", "1", "2", "-", "3", "4", "5", "-", "6", "7", "8">>,
           <<"+", "2", "5", "4", " ", "7", "1", "2", " ", "3", "4", "5", " ", "6", "7", "8">> }

PhoneInit ==
    /\ Init!1 /\ Init!2 /\ Init!3 /\ Init!5 /\ Init!6 /\ Init!7 /\ Init!8
    /\ \E raw \in RawPhones : last = [op |-> "phone_input", raw |-> raw]

Normalize ==
    /\ last.op = "phone_input"
    /\ last' = [op |-> "phone", raw |-> last.raw,
                raised |-> FormatPhoneRaises(last.raw),
                result |-> IF FormatPhoneRaises(last.raw) THEN <<>>
                           ELSE format_phone_number(last.raw)]
    /\ UNCHANGED <<payments, now, nCallbacks, pc, held, polled, inventory>>

PhoneSpec == PhoneInit /\ [][Normalize]_vars

(***************************************************************************)
(* initiate_stk_push on its own: the arguments and the provider's answer   *)
(* are drawn, then the method is applied.                                  *)
(***************************************************************************)
PushPhones == { ScenarioPhone, <<"1", "2", "3", "4", "5">> }

\* Amounts in tenths: 500, 500.9, 1.5, 1, 0.5, 0, -5
PushAmounts == { 5000, 5009, 15, 10, 5, 0, 0 - 50 }

PushReferences ==
    { DefaultReference, LongReference, <<"P", "O", "S", "0", "0", "0", "0", "0", "0", "0", "0", "7">>, <<>> }

PushDescriptions ==
    { ViewDescription, <<"G", "o", "o", "d", "s", "/", "S", "e", "r", "v", "i", "c", "e", "s">>, <<"P", "a", "y", "m", "e", "n", "t">> }

PushInit ==
    /\ Init!1 /\ Init!2 /\ Init!3 /\ Init!5 /\ Init!6 /\ Init!7 /\ Init!8
    /\ \E phone \in PushPhones, amount \in PushAmounts, reference \in PushReferences,
          description \in PushDescriptions, gw \in GatewayOutcomes(IssuedIds) :
          last = [op |-> "push_input", phone_number |-> phone, amount |-> amount,
                  reference |-> reference, description |-> description, gw |-> gw]

Push ==
    /\ last.op = "push_input"
    /\ last' = [last EXCEPT !.op = "push"] @@
               [result |-> initiate_stk_push(NewService, now, last.phone_number, last.amount,
                                             last.reference, last.description, last.gw)]
    /\ UNCHANGED <<payments, now, nCallbacks, pc, held, polled, inventory>>

PushSpec == PushInit /\ [][Push]_vars

(***************************************************************************)
(* Two attempts side by side: the provider issues two ids, and callbacks   *)
(* for either arrive in any order, with status and list requests between.  *)
(***************************************************************************)
MaxPairClock == 1

PairInitiateRequests ==
    { InitiateRequest("POST", TRUE, ScenarioPhone, JInt(500), None, None) }

\* The provider answers the push: accepted under either id, or declined
PairGateway == { gw \in GatewayOutcomes(CheckoutIds) : gw.push = "answered" }

\* For each id: paid with receipt ABC123, and cancelled by the payer
PairCallbacks ==
    { CallbackRequest("POST", TRUE, "stk", JStr(c), JInt(0), JStr("described"),
                      << Item("Amount", JNum(5000)),
                         Item("MpesaReceiptNumber", JStr("ABC123")) >>) : c \in CheckoutIds }
    \cup
    { CallbackRequest("POST", TRUE, "stk", JStr(c), JInt(1032), JStr("described"), <<>>) :
        c \in CheckoutIds }

\* api/mpesa/payments/
ListPayments ==
    /\ \E order \in ListOrders(payments) :
          last' = [op |-> "list", resp |-> mpesa_payments_list(payments, order)]
    /\ UNCHANGED <<payments, now, nCallbacks, pc, held, polled, inventory>>

PairNext ==
    \/ now < MaxPairClock /\ Tick
    \/ \E req \in PairInitiateRequests, gw \in PairGateway : Initiate(req, gw)
    \/ \E req \in PairCallbacks : nCallbacks < MaxDeliveries /\ Callback(req)
    \/ \E cid \in CheckoutIds : QueryStatus(cid)
    \/ ListPayments

PairSpec == Init /\ [][PairNext]_vars

(***************************************************************************)
(* The inventory: the stock methods of Product, the cart and the checkout. *)
(***************************************************************************)
Quantities == 1..MaxCartQuantity

AddStock(product, quantity) ==
    /\ Len(inventory.movements) < MaxMovements
    /\ inventory.stock[product] + quantity <= MaxStock
    /\ inventory' = add_stock(inventory, product, quantity, now)
    /\ UNCHANGED <<payments, now, nCallbacks, last, pc, held, polled>>

RemoveStock(product, quantity) ==
    /\ Len(inventory.movements) < MaxMovements
    /\ inventory' = remove_stock(inventory, product, quantity, now)
    /\ last' = [op |-> "remove_stock", product |-> product, quantity |-> quantity,
                raised |-> RemoveStockRaises(inventory, product, quantity)]
    /\ UNCHANGED <<payments, now, nCallbacks, pc, held, polled>>

SetStock(product, new_quantity) ==
    /\ Len(inventory.movements) < MaxMovements
    /\ inventory' = set_stock(inventory, product, new_quantity, now)
    /\ UNCHANGED <<payments, now, nCallbacks, last, pc, held, polled>>

\* POST add-to-cart/
AddToCart(product, quantity) ==
    /\ inventory.cart[product] + quantity <= MaxCartQuantity
    /\ inventory' = add_to_cart(inventory, product, quantity)
    /\ last' = [op |-> "add_to_cart", resp |-> [success |-> TRUE]]
    /\ UNCHANGED <<payments, now, nCallbacks, pc, held, polled>>

\* remove-from-cart/<item_id>/
RemoveFromCart(product) ==
    /\ inventory.cart[product] # 0
    /\ inventory' = remove_from_cart(inventory, product)
    /\ last' = [op |-> "remove_from_cart", resp |-> [success |-> TRUE]]
    /\ UNCHANGED <<payments, now, nCallbacks, pc, held, polled>>

\* checkout/
Checkout(method, payment_method) ==
    /\ IF method = "POST"
       THEN /\ Len(inventory.sales) < MaxSales
            /\ inventory' = checkout(inventory, payment_method, now)
            /\ last' = [op |-> "checkout",
                        resp |-> [success |-> TRUE, sale_id |-> Len(inventory'.sales),
                                  total |-> inventory'.sales[Len(inventory'.sales)].total_amount]]
       ELSE /\ last' = [op |-> "checkout", resp |-> [success |-> FALSE]]
            /\ UNCHANGED inventory
    /\ UNCHANGED <<payments, now, nCallbacks, pc, held, polled>>

StockNext ==
    \/ \E p \in Products, q \in Quantities : AddStock(p, q)
    \/ \E p \in Products, q \in Quantities : RemoveStock(p, q)
    \/ \E p \in Products, n \in 0..MaxStock : SetStock(p, n)
    \/ \E p \in Products, q \in Quantities : AddToCart(p, q)
    \/ \E p \in Products : RemoveFromCart(p)
    \/ \E method \in {"POST", "GET"} : Checkout(method, "cash")

StockSpec == Init /\ [][StockNext]_vars

(***************************************************************************)
(* Properties.                                                             *)
(***************************************************************************)
Terminal(status) == status \in {"successful", "failed", "cancelled"}

\* A step that handles one callback request from its first line to its response
CallbackStep == nCallbacks' = nCallbacks + 1

\* The rows a callback request addresses: those carrying its CheckoutRequestID
Addressed(req, table) ==
    IF req.method = "POST" /\ req.parses /\ req.doc = "stk"
       /\ req.CheckoutRequestID.kind = "str" /\ req.CheckoutRequestID.s # ""
    THEN {i \in DOMAIN table : table[i].checkout_request_id = req.CheckoutRequestID.s}
    ELSE {}

\* The fields of a row the callback governs
Governed(row) ==
    <<row.status, row.mpesa_receipt_number, row.amount, row.result_code,
      row.result_description, row.transaction_date>>

\* An acknowledgment body of exactly the shape {ResultCode, ResultDesc}
WellFormedAck(resp) ==
    /\ DOMAIN resp = {"status", "body"}
    /\ DOMAIN resp.body = {"ResultCode", "ResultDesc"}
    /\ resp.body.ResultCode \in Int

\* C1: no resurrection: a row that is successful or failed keeps its status
\* over every step, whatever callback arrives for its correlation id.
C1_NoResurrection ==
    [][\A i \in DOMAIN payments :
          payments[i].status \in {"successful", "failed"}
             => payments'[i].status = payments[i].status]_vars

\* C2: of two concurrent deliveries for one correlation id only one applies a
\* terminal transition: a delivery that read the row while it was pending and
\* reaches its save when the row is already terminal changes nothing.
C2_SecondDeliveryIsNoOp ==
    [][\A w \in Workers :
          ( /\ pc[w] = "save" /\ pc'[w] = "idle"
            /\ held[w].pre = "pending"
            /\ Terminal(payments[held[w].obj.id].status) )
             => payments' = payments]_vars

\* C3: a second delivery of the same successful payload is a pure no-op: the
\* row is successful after each call and no stored field differs after the
\* second call.
C3_DuplicateIsNoOp ==
    [][( /\ CallbackStep
         /\ last.op = "callback" /\ last.saved /\ last.pre = "pending"
         /\ EqZero(last.req.ResultCode)
         /\ last'.req = last.req )
          => /\ payments' = payments
             /\ \A i \in Addressed(last.req, payments) :
                   payments'[i].status = "successful"]_vars

\* C4: terminal rows are frozen: no callback-governed field of a terminal row
\* changes on a later callback for its correlation id, whatever the payload.
C4_TerminalFrozen ==
    [][CallbackStep =>
          \A i \in Addressed(last'.req, payments) :
             Terminal(payments[i].status)
                => Governed(payments'[i]) = Governed(payments[i])]_vars

\* A POST whose JSON carries a non-empty CheckoutRequestID that no row has
UnknownId(req, table) ==
    /\ req.method = "POST" /\ req.parses /\ req.doc = "stk"
    /\ req.CheckoutRequestID.kind = "str" /\ req.CheckoutRequestID.s # ""
    /\ \A i \in DOMAIN table : table[i].checkout_request_id # req.CheckoutRequestID.s

\* A POST whose JSON carries no CheckoutRequestID, or an empty one
MissingId(req) ==
    /\ req.method = "POST" /\ req.parses
    /\ \/ req.doc # "stk"
       \/ req.CheckoutRequestID = None
       \/ req.CheckoutRequestID = JStr("")

\* C5: a callback for a correlation id no row carries leaves the table as it
\* is (no row created, none changed) and is acknowledged with a well-formed
\* body whose ResultCode is not 0.
C5_UnknownIdLeavesLedger ==
    [][(CallbackStep /\ UnknownId(last'.req, payments))
          => /\ payments' = payments
             /\ WellFormedAck(last'.resp)
             /\ last'.resp.body.ResultCode # 0]_vars

C5_Witness ==
    /\ last.op = "callback"
    /\ payments # <<>>
    /\ UnknownId(last.req, payments)
    /\ last.resp.body.ResultCode = 1

\* C6: a callback without a correlation id (absent, empty, or no Body /
\* stkCallback to hold it) is answered, changes no row, and the answer is a
\* successful HTTP response whose ResultCode is not 0.
C6_MissingIdIsBenign ==
    [][(CallbackStep /\ MissingId(last'.req))
          => /\ payments' = payments
             /\ last'.resp.status = 200
             /\ WellFormedAck(last'.resp)
             /\ last'.resp.body.ResultCode # 0]_vars

C6_Witness ==
    /\ last.op = "callback"
    /\ last.req.doc = "no_body"
    /\ \E i \in DOMAIN payments : payments[i].status = "pending"
    /\ last.resp.body.ResultCode = 1

\* C7: whatever the request, the callback endpoint answers with HTTP 200 and a
\* body of exactly the shape {ResultCode, ResultDesc}.
C7_AlwaysHttpSuccess ==
    last.op = "callback"
       => /\ last.resp.status = 200
          /\ WellFormedAck(last.resp)

C7_Witness ==
    /\ last.op = "callback"
    /\ last.pre = "pending"
    /\ last.resp.body.ResultCode = 1
    /\ last.resp.body.ResultDesc = "Processing error"

\* C8: once the row of the callback's correlation id has been located, the
\* acknowledgment is {ResultCode: 0, ResultDesc: "Success"}, whatever the
\* payload holds.
C8_LocatedRowAckZero ==
    (last.op = "callback" /\ last.pre \in PAYMENT_STATUS)
       => last.resp = [status |-> 200,
                       body |-> [ResultCode |-> 0, ResultDesc |-> "Success"]]

\* The value of the last item of the list with the given name, None without one
RECURSIVE LastValue(_, _)
LastValue(items, name) ==
    IF items = <<>> THEN None
    ELSE IF items[Len(items)].Name = name THEN items[Len(items)].Value
    ELSE LastValue(SubSeq(items, 1, Len(items) - 1), name)

\* A success payload as the provider sends it: ResultCode 0, a ResultDesc, and
\* numbers as the values of its Amount items
ProviderSuccess(req) ==
    /\ req.ResultCode = JInt(0)
    /\ req.ResultDesc # None
    /\ \A k \in DOMAIN req.Items :
          req.Items[k].Name = "Amount" => req.Items[k].Value.kind \in {"int", "num"}

InitiateStep == last'.op = "initiate"

\* The amount of the request is not a number greater than 0
NotGreaterThanZero(v) == FloatRaises(v) \/ PyFloat(v) <= 0

\* The phone of the request, as the view hands it on, fails normalization
DoesNotNormalize(raw) == FormatPhoneRaises(Strip(raw))

\* The provider did not accept the push: no token, no answer, or a response
\* code other than "0"
NotAccepted(gw) == gw.token = "error" \/ gw.push = "error" \/ gw.ResponseCode # "0"

\* The response reports a failure to the caller
ReportsFailure(resp) == resp.body.success = FALSE /\ resp.status \in {400, 405, 500}

C12_NoRowWithoutAcceptance ==
    [][ /\ (InitiateStep /\ NotAccepted(last'.gw))
           => (ReportsFailure(last'.resp) /\ payments' = payments)
        /\ (payments' # payments)
           => /\ InitiateStep
              /\ ~NotAccepted(last'.gw)
              /\ Len(payments') = Len(payments) + 1
              /\ SubSeq(payments', 1, Len(payments)) = payments
              /\ payments'[Len(payments')].checkout_request_id
                    = last'.gw.CheckoutRequestID ]_vars

\* C12: a valid request reached the provider, was declined, and was answered
\* 400 with the table still empty
C12_Witness ==
    /\ last.op = "initiate"
    /\ last.gw.token = "ok" /\ last.gw.push = "answered" /\ last.gw.ResponseCode # "0"
    /\ Len(last.calls) = 2
    /\ last.resp.status = 400
    /\ last.resp.body.message = last.gw.ResponseDescription
    /\ payments = <<>>

\* 254 followed by 9 digits
Canonical(chars) ==
    /\ Len(chars) = 12
    /\ StartsWith(chars, <<"2", "5", "4">>)
    /\ \A i \in 1..Len(chars) : chars[i] \in DigitChars

\* C13: when the provider accepts the push of an initiation with a fresh id
\* and a phone that normalizes to 254 and 9 digits, exactly one row is added,
\* with status pending, the two ids the provider returned, the requested
\* amount, and the phone in that canonical form rather than as it was typed.
C13_RowOnAcceptance ==
    [][ (/\ InitiateStep
         /\ Len(last'.calls) = 2
         /\ Canonical(last'.calls[2].PhoneNumber)
         /\ ~NotAccepted(last'.gw)
         /\ Matching(payments, last'.gw.CheckoutRequestID) = {})
        => /\ Len(payments') = Len(payments) + 1
           /\ SubSeq(payments', 1, Len(payments)) = payments
           /\ LET row == payments'[Len(payments')]
              IN  /\ row.status = "pending"
                  /\ row.checkout_request_id = last'.gw.CheckoutRequestID
                  /\ row.merchant_request_id = last'.gw.MerchantRequestID
                  /\ (PyFloat(last'.req.amount) % 10 = 0
                        => row.amount * 10 = PyFloat(last'.req.amount))
                  /\ Canonical(row.phone_number) ]_vars

\* Rows of the table that carry the id
RowsWith(table, cid) == {i \in DOMAIN table : table[i].checkout_request_id = cid}

\* C14: at most one row carries any given correlation id, also when the
\* provider returns the same CheckoutRequestID to two initiations, one after
\* the other or at once; and the id of a row never changes once it is created.
C14_CorrelationIdUnique ==
    [][ /\ \A i, j \in DOMAIN payments' :
              payments'[i].checkout_request_id = payments'[j].checkout_request_id => i = j
        /\ \A i \in DOMAIN payments :
              /\ i \in DOMAIN payments'
              /\ payments'[i].checkout_request_id = payments[i].checkout_request_id ]_vars

\* C14: an initiation was given the id of a row another initiation, still
\* running, had created; it was answered 500 and the table holds one row with
\* that id
C14_Witness ==
    /\ last.op = "initiate"
    /\ ~NotAccepted(last.gw)
    /\ Len(last.calls) = 2
    /\ last.resp.status = 500
    /\ Cardinality(RowsWith(payments, last.gw.CheckoutRequestID)) = 1
    /\ \E w \in Workers :
          /\ pc[w] = "link"
          /\ held[w].obj.checkout_request_id = last.gw.CheckoutRequestID

\* A step that answers one status request
StatusStep == last'.op = "status"

\* C15: a status request changes no row; it answers NotFound when no row has
\* the id and otherwise the row's current status, receipt, amount, phone and
\* creation time.
C15_QueryStatusReadOnly ==
    [][ StatusStep
        => /\ payments' = payments
           /\ (RowsWith(payments, last'.req) = {})
                 => (last'.resp.status = 404 /\ last'.resp.body.success = FALSE)
           /\ \A i \in RowsWith(payments, last'.req) :
                 /\ last'.resp.status = 200
                 /\ last'.resp.body.status = payments[i].status
                 /\ last'.resp.body.receipt_number = payments[i].mpesa_receipt_number
                 /\ last'.resp.body.amount = payments[i].amount
                 /\ last'.resp.body.phone_number = payments[i].phone_number
                 /\ last'.resp.body.created_at = payments[i].created_at ]_vars

\* C15: a status request for a row linked to a sale was answered with its
\* snapshot, after the clock had moved on from the row's last write
C15_Witness ==
    /\ last.op = "status"
    /\ last.resp.status = 200
    /\ last.resp.body.status = "pending"
    /\ last.resp.body.phone_number = ScenarioPhone
    /\ \E i \in RowsWith(payments, last.req) :
          payments[i].sale # None /\ payments[i].updated_at < now

\* C16: once a poll for an id has returned a terminal status, no later poll for
\* that id returns pending, whatever initiations and callback deliveries run
\* in between.
C16_PollNeverRollsBack ==
    ~(/\ last.op = "status"
      /\ last.req \in polled
      /\ last.resp.status = 200
      /\ last.resp.body.status = "pending")

(***************************************************************************)
(* The gateway client.                                                     *)
(***************************************************************************)
\* The three shapes of a digit string the normalization is to accept
ZeroShape(d) == Len(d) = 10 /\ StartsWith(d, <<"0">>)
CountryShape(d) == Len(d) = 12 /\ StartsWith(d, <<"2", "5", "4">>)
BareShape(d) == Len(d) = 9 /\ StartsWith(d, <<"7">>)

\* C17: with the non-digits stripped, 0 and 9 digits has its 0 replaced by 254,
\* 254 and 9 digits is returned unchanged, 7 and 8 digits is prefixed with 254;
\* every other digit string is refused, so every result is 254 and 9 digits.
C17_ThreeShapesOnly ==
    last.op = "phone"
    => LET d == OnlyDigits(last.raw)
       IN  /\ ZeroShape(d) => (~last.raised /\ last.result = <<"2", "5", "4">> \o Tail(d))
           /\ CountryShape(d) => (~last.raised /\ last.result = d)
           /\ BareShape(d) => (~last.raised /\ last.result = <<"2", "5", "4">> \o d)
           /\ ~(ZeroShape(d) \/ CountryShape(d) \/ BareShape(d)) => last.raised
           /\ ~last.raised => Canonical(last.result)

\* chars cut to at most n characters: out is a prefix of chars, of the length
\* of chars or n, whichever is smaller
PrefixOf(out, chars, n) ==
    /\ Len(out) = (IF Len(chars) <= n THEN Len(chars) ELSE n)
    /\ \A i \in 1..Len(out) : out[i] = chars[i]

\* The push request was sent
PushSent(result) == Len(result.calls) = 2

\* C18: the reference sent is the first 12 characters of the reference given,
\* the description sent the first 13 of the description given (shorter ones
\* as they are), and the amount sent is the amount given, not cut down.
C18_OnlyStringsTruncated ==
    (last.op = "push" /\ PushSent(last.result))
    => LET sent == last.result.calls[2]
       IN  /\ PrefixOf(sent.AccountReference, last.reference, 12)
           /\ PrefixOf(sent.TransactionDesc, last.description, 13)
           /\ sent.Amount * 10 = last.amount

\* The amount, in tenths, is a positive whole number
PositiveInteger(tenths) == tenths > 0 /\ tenths % 10 = 0

\* C19: an amount that is zero, negative or not whole is refused and nothing is
\* sent to the provider.
C19_OnlyPositiveIntegers ==
    (last.op = "push" /\ ~PositiveInteger(last.amount))
    => /\ last.result.success = FALSE
       /\ last.result.calls = <<>>

\* C20: whatever happens (validation failure, token failure, network error or
\* timeout, decline), the method returns a result instead of raising; when the
\* push was not accepted the result has success false and an error message,
\* which for a decline is the provider's description.
C20_NeverRaises ==
    last.op = "push"
    => /\ ~last.result.escaped
       /\ (\/ ValidationError(last.phone_number, last.amount) # ""
           \/ NotAccepted(last.gw))
          => (last.result.success = FALSE /\ last.result.error # "")
       /\ (/\ ValidationError(last.phone_number, last.amount) = ""
           /\ last.gw.token = "ok" /\ last.gw.push = "answered"
           /\ last.gw.ResponseCode # "0")
          => last.result.error = last.gw.ResponseDescription

\* C20: the token request failed for valid arguments and the method returned
\* a failure result after that one call
C20_Witness ==
    /\ last.op = "push"
    /\ ValidationError(last.phone_number, last.amount) = ""
    /\ last.gw.token = "error"
    /\ ~last.result.escaped
    /\ last.result.success = FALSE
    /\ Len(last.result.calls) = 1

(***************************************************************************)
(* Token cache.                                                            *)
(***************************************************************************)
\* The calls include a token request
TokenAcquired(calls) == \E i \in DOMAIN calls : calls[i].url = "oauth"

\* The calls end with a push request
HasPush(calls) == calls # <<>> /\ calls[Len(calls)].url = "processrequest"

\* The token of the push request the calls end with
BearerOf(calls) == calls[Len(calls)].Bearer

\* C21: every push request carries a token whose recorded expiry lay in the
\* future when it was selected; a token obtained by an earlier push request is
\* reused, without a new token request, as long as its expiry has not come;
\* at or after its expiry a new token is requested first.
C21_TokenCache ==
    [][ (InitiateStep /\ now' = now /\ HasPush(last'.calls))
        => /\ now < BearerOf(last'.calls).token_expiry.n
           /\ (last.op = "initiate" /\ HasPush(last.calls))
              => IF now < BearerOf(last.calls).token_expiry.n
                 THEN /\ ~TokenAcquired(last'.calls)
                      /\ BearerOf(last'.calls) = BearerOf(last.calls)
                 ELSE TokenAcquired(last'.calls) ]_vars

(***************************************************************************)
(* Receipts and confirmed amounts.                                         *)
(***************************************************************************)
\* The amount of the row is none that an initiation request asked for: a
\* callback has written it
AmountOverwritten(row) ==
    \A req \in InitiateRequests : row.amount # DecimalPlaces0(PyFloat(req.amount))

\* C22: in every state, a row whose receipt is set is successful, and a row
\* whose amount a callback has overwritten is successful.
C22_ReceiptOnlyOnSuccess ==
    \A i \in DOMAIN payments :
        (payments[i].mpesa_receipt_number # "" \/ AmountOverwritten(payments[i]))
        => payments[i].status = "successful"

\* C23: in every state no two rows hold the same non-empty receipt, also
\* when success callbacks for two ids carry the same MpesaReceiptNumber.
C23_ReceiptUnique ==
    \A i, j \in DOMAIN payments :
        (/\ payments[i].mpesa_receipt_number # ""
         /\ payments[i].mpesa_receipt_number = payments[j].mpesa_receipt_number)
        => i = j


\* C24: every step that lowers a product's stock adds a stock movement for that
\* product whose previous_quantity is the stock before the step and whose
\* new_quantity is the stock after it.
Lowered(p) == inventory'.stock[p] < inventory.stock[p]

LoggedDecrement(p) ==
    \E i \in DOMAIN inventory'.movements :
        /\ i > Len(inventory.movements)
        /\ inventory'.movements[i].product = p
        /\ inventory'.movements[i].previous_quantity = inventory.stock[p]
        /\ inventory'.movements[i].new_quantity = inventory'.stock[p]

C24_DecrementLogged ==
    [][ \A p \in Products : Lowered(p) => LoggedDecrement(p) ]_vars

\* No TransactionDate item of the list parses (there may be none at all)
NoUsableDate(items) ==
    \A k \in DOMAIN items :
        items[k].Name = "TransactionDate" => StrptimeRaises(items[k].Value)

HasBadDate(items) ==
    \E k \in DOMAIN items :
        items[k].Name = "TransactionDate" /\ StrptimeRaises(items[k].Value)

ResolvedSale(cart_id) ==
    IF cart_id.kind = "int" /\ cart_id.n \in CartIdsInTable
    THEN SaleOfCart(cart_id.n)
    ELSE None

\* C26: an initiation with a cart reference that the provider accepted under
\* an id no row carries creates one pending row, linked to the sale of the
\* cart when the reference resolves to one and unlinked otherwise (no such
\* cart, a cart without a sale, a reference that is not an id), and is
\* answered with success and the row's correlation id.
C26_BestEffortSaleLink ==
    [][ ( /\ InitiateStep
          /\ now' = now
          /\ HasPush(last'.calls)
          /\ ~NotAccepted(last'.gw)
          /\ Truthy(last'.req.cart_id)
          /\ Matching(payments, last'.gw.CheckoutRequestID) = {} )
        => /\ Len(payments') = Len(payments) + 1
           /\ payments'[Len(payments')].status = "pending"
           /\ payments'[Len(payments')].sale = ResolvedSale(last'.req.cart_id)
           /\ last'.resp.status = 200
           /\ last'.resp.body.success
           /\ last'.resp.body.checkout_request_id
                 = payments'[Len(payments')].checkout_request_id ]_vars

\* C27: an initiation answered with a failure leaves the rows as they were,
\* and an initiation that adds a row is answered with success and with the id
\* and the correlation id of that row.
C27_NoOrphanRow ==
    [][ InitiateStep
        => /\ ReportsFailure(last'.resp) => payments' = payments
           /\ payments' # payments
              => /\ last'.resp.status = 200
                 /\ last'.resp.body.success
                 /\ last'.resp.body.payment_id = Len(payments')
                 /\ last'.resp.body.checkout_request_id
                       = payments'[Len(payments')].checkout_request_id ]_vars

\* The step is the save of a callback that carries the correlation id of row i:
\* the whole handler, or its payment.save() when handlers interleave
ByOwnCallback(i) ==
    \/ /\ CallbackStep
       /\ last'.op = "callback"
       /\ i \in Addressed(last'.req, payments)
    \/ \E w \in Workers :
          /\ pc[w] = "save"
          /\ pc'[w] = "idle"
          /\ i \in Addressed(held[w].req, payments)

\* C28: no row is removed, and the status and the callback-governed fields of
\* a row change only in a step that is a callback for the row's own
\* correlation id: initiations, status queries, the list, callbacks for other
\* ids and the passing of time leave them as they are.
C28_OnlyOwnCallbackChangesRow ==
    [][ /\ Len(payments') >= Len(payments)
        /\ \A i \in DOMAIN payments :
              Governed(payments'[i]) # Governed(payments[i]) => ByOwnCallback(i) ]_vars

\* C29: the amount of the row an initiation adds is the amount that was sent
\* to the provider in the push request of that initiation.
C29_RecordedAmountIsSentAmount ==
    [][ (InitiateStep /\ Len(payments') = Len(payments) + 1)
        => /\ HasPush(last'.calls)
           /\ payments'[Len(payments')].amount = last'.calls[Len(last'.calls)].Amount ]_vars

\* A callback for the id was just processed for a row it found pending
Processed(cid) ==
    /\ last.op = "callback"
    /\ last.saved
    /\ last.pre = "pending"
    /\ last.req.CheckoutRequestID = JStr(cid)

\* The last answer is a status answer for the id
Answered(cid) == last.op = "status" /\ last.req = cid /\ last.resp.status = 200

ObservedTerminal(cid) == Answered(cid) /\ Terminal(last.resp.body.status)

\* C30: when a callback has been processed for a pending row the row is
\* terminal; the client that keeps polling that id then gets a terminal
\* answer; and once it has had one, every later answer for the id is terminal.
C30_OutcomeObservable ==
    \A cid \in IssuedIds :
        /\ [](Processed(cid) => \A i \in RowsWith(payments, cid) : Terminal(payments[i].status))
        /\ Processed(cid) ~> ObservedTerminal(cid)
        /\ []((cid \in polled /\ Answered(cid)) => Terminal(last.resp.body.status))

====
